---- MODULE Spec2Model ----
(***************************************************************************)
(* PII detector: detector_varikuti_Narendra_Reddy.py.                      *)
(*                                                                         *)
(* A string is a sequence of one-character strings; a record is a function *)
(* from field names to values; a value is Str(s) or a non-string scalar.   *)
(* The regular expressions are modelled by what re.search decides: the     *)
(* existence of a match position.                                          *)
(***************************************************************************)
EXTENDS Integers, Sequences, FiniteSets, TLC

(* ----------------------------------------------------------------------- *)
(* Characters                                                              *)
(* ----------------------------------------------------------------------- *)

Digits == {"0", "1", "2", "3", "4", "5", "6", "7", "8", "9"}

UpperLetters ==
    {"A", "B", "C", "D", "E", "F", "G", "H", "I", "J", "K", "L", "M",
     "N", "O", "P", "Q", "R", "S", "T", "U", "V", "W", "X", "Y", "Z"}

LowerLetters ==
    {"a", "b", "c", "d", "e", "f", "g", "h", "i", "j", "k", "l", "m",
     "n", "o", "p", "q", "r", "s", "t", "u", "v", "w", "x", "y", "z"}

Letters == UpperLetters \cup LowerLetters

\* \s of re, and the characters str.strip() and str.split() treat as blank
Whitespace == {" ", "\t"}

\* \w of re
WordChars == Letters \cup Digits \cup {"_"}

IsSpace(c) == c \in Whitespace

IsWord(c) == c \in WordChars

Min(a, b) == IF a < b THEN a ELSE b

Max(a, b) == IF a > b THEN a ELSE b

(* ----------------------------------------------------------------------- *)
(* String helpers (Python str methods)                                     *)
(* ----------------------------------------------------------------------- *)

\* s[:n]
Prefix(s, n) == SubSeq(s, 1, Min(n, Len(s)))

\* s[-n:]
Suffix(s, n) == SubSeq(s, Max(1, Len(s) - n + 1), Len(s))

\* 'X' * n
Xs(n) == [i \in 1..n |-> "X"]

\* the characters of s at positions lo..hi all satisfy the class cls
AllIn(s, lo, hi, cls) ==
    /\ lo >= 1
    /\ hi <= Len(s)
    /\ \A i \in lo..hi : s[i] \in cls

\* position of the first c in s, 0 when there is none: s.find(c) + 1
FirstIndex(s, c) ==
    IF \E i \in 1..Len(s) : s[i] = c
    THEN CHOOSE i \in 1..Len(s) : s[i] = c /\ \A j \in 1..(i - 1) : s[j] # c
    ELSE 0

\* s.strip()
Strip(s) ==
    IF \A i \in 1..Len(s) : IsSpace(s[i])
    THEN << >>
    ELSE LET lo == CHOOSE i \in 1..Len(s) :
                       ~IsSpace(s[i]) /\ \A j \in 1..(i - 1) : IsSpace(s[j])
             hi == CHOOSE i \in 1..Len(s) :
                       ~IsSpace(s[i]) /\ \A j \in (i + 1)..Len(s) : IsSpace(s[j])
         IN  SubSeq(s, lo, hi)

\* s.split(): the maximal runs of non-blank characters, in order
RECURSIVE Split(_)
Split(s) ==
    IF \A i \in 1..Len(s) : IsSpace(s[i])
    THEN << >>
    ELSE LET lo == CHOOSE i \in 1..Len(s) :
                       ~IsSpace(s[i]) /\ \A j \in 1..(i - 1) : IsSpace(s[j])
             hi == CHOOSE i \in lo..Len(s) :
                       /\ \A j \in lo..i : ~IsSpace(s[j])
                       /\ (i = Len(s) \/ IsSpace(s[i + 1]))
         IN  << SubSeq(s, lo, hi) >> \o Split(SubSeq(s, hi + 1, Len(s)))

\* s.replace(' ', '')
RECURSIVE RemoveSpaces(_)
RemoveSpaces(s) ==
    IF s = << >> THEN << >>
    ELSE IF Head(s) = " " THEN RemoveSpaces(Tail(s))
    ELSE << Head(s) >> \o RemoveSpaces(Tail(s))

\* ' '.join(parts)
RECURSIVE JoinSpace(_)
JoinSpace(parts) ==
    IF parts = << >> THEN << >>
    ELSE IF Len(parts) = 1 THEN parts[1]
    ELSE parts[1] \o << " " >> \o JoinSpace(Tail(parts))

(* ----------------------------------------------------------------------- *)
(* Regular expressions                                                     *)
(* ----------------------------------------------------------------------- *)

IsWordAt(s, i) == i \in 1..Len(s) /\ IsWord(s[i])

\* \b between positions p and p + 1 (p = 0 is the start, Len(s) the end)
WordBoundary(s, p) == IsWordAt(s, p) # IsWordAt(s, p + 1)

\* \b\d{10}\b matches s from position i on
PhoneMatchAt(s, i) ==
    /\ WordBoundary(s, i - 1)
    /\ AllIn(s, i, i + 9, Digits)
    /\ WordBoundary(s, i + 9)

\* PHONE_REGEX.search(s)
PHONE_REGEX(s) == \E i \in 1..(Len(s) - 9) : PhoneMatchAt(s, i)

\* \b\d{4}\s?\d{4}\s?\d{4}\b matches s from position i on, with a blanks
\* after the first group and b after the second
AadharMatchAt(s, i, a, b) ==
    /\ WordBoundary(s, i - 1)
    /\ AllIn(s, i, i + 3, Digits)
    /\ a = 1 => AllIn(s, i + 4, i + 4, Whitespace)
    /\ AllIn(s, i + 4 + a, i + 7 + a, Digits)
    /\ b = 1 => AllIn(s, i + 8 + a, i + 8 + a, Whitespace)
    /\ AllIn(s, i + 8 + a + b, i + 11 + a + b, Digits)
    /\ WordBoundary(s, i + 11 + a + b)

\* AADHAR_REGEX.search(s)
AADHAR_REGEX(s) ==
    \E i \in 1..(Len(s) - 11) : \E a \in {0, 1} : \E b \in {0, 1} :
        AadharMatchAt(s, i, a, b)

\* [A-PR-WYa-pr-wy] under re.IGNORECASE
PassportLetters == Letters \ {"Q", "X", "Z", "q", "x", "z"}

NonZeroDigits == Digits \ {"0"}

\* PASSPORT_REGEX.search(s): \b[A-PR-WYa-pr-wy][1-9]\d\s?\d{4}[1-9]\b
PASSPORT_REGEX(s) ==
    \E i \in 1..(Len(s) - 7) : \E a \in {0, 1} :
        /\ WordBoundary(s, i - 1)
        /\ AllIn(s, i, i, PassportLetters)
        /\ AllIn(s, i + 1, i + 1, NonZeroDigits)
        /\ AllIn(s, i + 2, i + 2, Digits)
        /\ a = 1 => AllIn(s, i + 3, i + 3, Whitespace)
        /\ AllIn(s, i + 3 + a, i + 6 + a, Digits)
        /\ AllIn(s, i + 7 + a, i + 7 + a, NonZeroDigits)
        /\ WordBoundary(s, i + 7 + a)

\* UPI_REGEX.search(s): [\w\.\-]+@\w+
UPI_REGEX(s) ==
    \E i \in 2..(Len(s) - 1) :
        /\ s[i] = "@"
        /\ s[i - 1] \in WordChars \cup {".", "-"}
        /\ IsWord(s[i + 1])

EmailLocalChars == Letters \cup Digits \cup {".", "_", "%", "+", "-"}

EmailDomainChars == Letters \cup Digits \cup {".", "-"}

\* [A-Z|a-z]
EmailTldChars == Letters \cup {"|"}

\* EMAIL_REGEX.search(s): \b[A-Za-z0-9._%+-]+@[A-Za-z0-9.-]+\.[A-Z|a-z]{2,}\b
\* lo..at-1 is the local part, at+1..dot-1 the domain before its last dot,
\* dot+1..hi the top-level label
EMAIL_REGEX(s) ==
    \E at \in 2..Len(s) :
        /\ s[at] = "@"
        /\ \E lo \in 1..(at - 1) :
               /\ WordBoundary(s, lo - 1)
               /\ AllIn(s, lo, at - 1, EmailLocalChars)
        /\ \E dot \in (at + 2)..Len(s) :
               /\ s[dot] = "."
               /\ AllIn(s, at + 1, dot - 1, EmailDomainChars)
               /\ \E hi \in (dot + 2)..Len(s) :
                      /\ AllIn(s, dot + 1, hi, EmailTldChars)
                      /\ WordBoundary(s, hi)

(* ----------------------------------------------------------------------- *)
(* Values and redaction functions                                          *)
(* ----------------------------------------------------------------------- *)

\* a str value and a non-string JSON scalar (int, bool)
Str(s) == [str |-> s]

Num(n) == [num |-> n]

\* isinstance(value, str)
IsStr(v) == DOMAIN v = {"str"}

REDACTED_UPI ==
    << "[", "R", "E", "D", "A", "C", "T", "E", "D", "_", "U", "P", "I", "]" >>

REDACTED_EMAIL ==
    << "[", "R", "E", "D", "A", "C", "T", "E", "D", "_",
       "E", "M", "A", "I", "L", "]" >>

REDACTED_ADDRESS ==
    << "[", "R", "E", "D", "A", "C", "T", "E", "D", "_",
       "A", "D", "D", "R", "E", "S", "S", "]" >>

REDACTED_IDENTIFIER ==
    << "[", "R", "E", "D", "A", "C", "T", "E", "D", "_",
       "I", "D", "E", "N", "T", "I", "F", "I", "E", "R", "]" >>

\* variant of redact_phone: masks with zeros instead of X
redact_phone_zeros(phone_str) ==
    Prefix(phone_str, 2) \o [i \in 1..6 |-> "0"] \o Suffix(phone_str, 2)

\* f"{phone_str[:2]}XXXXXX{phone_str[-2:]}"
redact_phone(phone_str) == Prefix(phone_str, 2) \o Xs(6) \o Suffix(phone_str, 2)

\* f"XXXXXXXX{aadhar_str.replace(' ', '')[-4:]}"
redact_aadhar(aadhar_str) == Xs(8) \o Suffix(RemoveSpaces(aadhar_str), 4)

\* f"{passport_str[0]}XXXXXX{passport_str[-1]}"
redact_passport(passport_str) ==
    << passport_str[1] >> \o Xs(6) \o << passport_str[Len(passport_str)] >>

\* variant of redact_name: one X too many per part, 'X' * len(p)
redact_name_long(name) ==
    LET parts == Split(name)
    IN  JoinSpace([i \in 1..Len(parts) |->
                      << parts[i][1] >> \o Xs(Len(parts[i]))])

\* p[0] + 'X' * (len(p) - 1) for each part of name.split(), joined by ' '
redact_name(name) ==
    LET parts == Split(name)
    IN  JoinSpace([i \in 1..Len(parts) |->
                      << parts[i][1] >> \o Xs(Len(parts[i]) - 1)])

\* split('@', 1); the ValueError of unpacking one part gives the sentinel
redact_email(email) ==
    LET at == FirstIndex(email, "@")
        local_part == SubSeq(email, 1, at - 1)
        domain == SubSeq(email, at + 1, Len(email))
        redacted_local ==
            IF Len(local_part) > 2
            THEN << local_part[1] >> \o Xs(3) \o << local_part[Len(local_part)] >>
            ELSE Xs(Len(local_part))
    IN  IF at = 0 THEN REDACTED_EMAIL
        ELSE redacted_local \o << "@" >> \o domain

\* len(value.split('@')[1].split('.')) == 1: the text between the first '@'
\* and the next '@' (or the end) holds no '.'; value holds an '@'
UpiDomainIsSimple(value) ==
    LET at == FirstIndex(value, "@")
        rest == SubSeq(value, at + 1, Len(value))
        nxt == FirstIndex(rest, "@")
        part == IF nxt = 0 THEN rest ELSE SubSeq(rest, 1, nxt - 1)
    IN  FirstIndex(part, ".") = 0

(* ----------------------------------------------------------------------- *)
(* Input records                                                           *)
(* ----------------------------------------------------------------------- *)

\* the largest number of fields of an input record
MaxFields == 3

D10 == << "9", "8", "7", "6", "5", "4", "3", "2", "1", "0" >>

A12 == << "1", "2", "3", "4", " ", "5", "6", "7", "8", " ", "9", "0", "1", "2" >>

Blank == Str(<< " ", " " >>)

FieldNames ==
    {"phone", "contact", "aadhar", "address_proof", "passport", "upi_id",
     "name", "email", "address", "ip_address", "device_id", "city"}

\* the values tried for each field
Pool(key) ==
    CASE key = "phone" ->
           { Str(D10),                                   \* 9876543210
             Str(<< "t", " " >> \o D10),                 \* text before the token
             Str(D10 \o << "1" >>),                      \* eleven digits
             Num(25) }
      [] key = "contact" ->
           { Str(D10 \o << " ", "x" >>) }               \* text after the token
      [] key = "aadhar" ->
           { Str(A12),                                   \* 1234 5678 9012
             Str(A12 \o << " ", "o", "k" >>),            \* text after the token
             Str(SubSeq(A12, 1, 9)) }                    \* two groups only
      [] key = "address_proof" ->
           { Str(<< "i", "d", " " >> \o RemoveSpaces(A12)),
             Str(<< "1", "2", "3", "4", "\t", "5", "6", "7", "8", "\t",
                    "9", "0", "1", "2" >>) }
      [] key = "passport" ->
           { Str(<< "A", "1", "2", "3", "4", "5", "6", "7" >>),
             Str(<< "n", "o", " ", "a", "1", "2", " ", "3", "4", "5", "6", "7" >>),
             Str(<< "X", "1", "2", "3", "4", "5", "6", "7" >>) }
      [] key = "upi_id" ->
           { Str(<< "u", "@", "u", "p", "i" >>),
             Str(<< "a", "@", "b", ".", "c", "o" >>),
             Str(<< "n", "o", "p", "e" >>) }
      [] key = "name" ->
           { Str(<< "J", "o", " ", "D", "o", "e" >>),
             Str(<< " ", "J", "o", "\t", " ", "D", " " >>),
             Str(<< "A", "l" >>),
             Blank }
      [] key = "email" ->
           { Str(<< "j", "o", "e", "@", "e", "x", ".", "c", "o" >>),
             Str(<< "m", " ", "a", "@", "b", ".", "c", "o" >>),
             Str(<< "j", "o", "e", "@", "e", "x" >>) }
      [] key = "address" ->
           { Str(<< "1", "2", " ", "M", "a", "i", "n", " ", "S", "t", ",",
                    " ", "X" >>),
             Str(<< " ", " ", "M", "a", "i", "n", " ", "S", "t", " ", " " >>),
             Num(7) }
      [] key = "ip_address" ->
           { Str(<< "1", ".", "2", ".", "3", ".", "4" >>), Blank }
      [] key = "device_id" ->
           { Str(<< "D", "E", "V", "1" >>), Blank, Num(42) }
      [] key = "city" ->
           { Str(D10),
             Str(<< "j", "o", "e", "@", "e", "x", ".", "c", "o" >>) }

\* the records with exactly the fields of keys
RECURSIVE RecordsOver(_)
RecordsOver(keys) ==
    IF keys = {} THEN { << >> }
    ELSE LET key == CHOOSE k \in keys : TRUE
         IN  { (key :> v) @@ r : v \in Pool(key), r \in RecordsOver(keys \ {key}) }

Records ==
    UNION { RecordsOver(keys) :
              keys \in { K \in SUBSET FieldNames : Cardinality(K) <= MaxFields } }

(* ----------------------------------------------------------------------- *)
(* process_record                                                          *)
(* ----------------------------------------------------------------------- *)

VARIABLES
    data,                  \* the record passed to process_record
    redacted_data,         \* its copy, redacted in place
    is_pii_found,
    combinatorial_keys,
    pii_fields_to_redact,
    todo,                  \* the fields the loop of Step 1 has not yet visited
    pc,                    \* "idle", "detect", "evaluate", "redact", "done",
                           \* "raised" when an exception left process_record
    pass,                  \* how many times the record went through
    name_arg,              \* the argument of a direct call of redact_name
    name_result,           \* and what it returned
    rows,                  \* main: the rows csv.DictReader yields
    row_index,             \* main: the number of rows the loop has consumed
    processed_records,     \* main: the list of output rows
    output_file,           \* main: the output file, once written
    main_pc                \* main: "idle", "loop", "in_call", "finished", "aborted"

\* the state of the callers of process_record
caller_vars ==
    << name_arg, name_result, rows, row_index, processed_records,
       output_file, main_pc >>

vars ==
    << data, redacted_data, is_pii_found, combinatorial_keys,
       pii_fields_to_redact, todo, pc, pass, caller_vars >>

\* no output file has been written
NoFile == [written |-> FALSE, rows |-> << >>]

Init ==
    /\ name_arg = << >>
    /\ name_result = << >>
    /\ rows = << >>
    /\ row_index = 0
    /\ processed_records = << >>
    /\ output_file = NoFile
    /\ main_pc = "idle"
    /\ data = << >>
    /\ redacted_data = << >>
    /\ is_pii_found = FALSE
    /\ combinatorial_keys = {}
    /\ pii_fields_to_redact = {}
    /\ todo = {}
    /\ pc = "idle"
    /\ pass = 0

\* not isinstance(value, str) or not value.strip()
Skipped(value) == ~IsStr(value) \/ Strip(value.str) = << >>

\* variant of Branch: the phone test without its field-name condition
Branch_phone_any_field(key, value) ==
    IF PHONE_REGEX(value) THEN "phone"
    ELSE IF AADHAR_REGEX(value) /\ key \in {"aadhar", "address_proof"} THEN "aadhar"
    ELSE IF PASSPORT_REGEX(value) /\ key \in {"passport"} THEN "passport"
    ELSE IF UPI_REGEX(value) /\ key \in {"upi_id"} THEN "upi"
    ELSE IF key = "name" /\ Len(Split(Strip(value))) > 1 THEN "name"
    ELSE IF EMAIL_REGEX(value) /\ key = "email" THEN "email"
    ELSE IF key = "address" /\ Len(Strip(value)) > 10 THEN "address"
    ELSE IF key \in {"ip_address", "device_id"} THEN "device_context"
    ELSE "none"

\* variant of Branch: the upi branch taken on the field name alone
Branch_upi_any_value(key, value) ==
    IF PHONE_REGEX(value) /\ key \in {"phone", "contact"} THEN "phone"
    ELSE IF AADHAR_REGEX(value) /\ key \in {"aadhar", "address_proof"} THEN "aadhar"
    ELSE IF PASSPORT_REGEX(value) /\ key \in {"passport"} THEN "passport"
    ELSE IF key \in {"upi_id"} THEN "upi"
    ELSE IF key = "name" /\ Len(Split(Strip(value))) > 1 THEN "name"
    ELSE IF EMAIL_REGEX(value) /\ key = "email" THEN "email"
    ELSE IF key = "address" /\ Len(Strip(value)) > 10 THEN "address"
    ELSE IF key \in {"ip_address", "device_id"} THEN "device_context"
    ELSE "none"

\* the branch of the if/elif chain of Step 1 that key and value take
Branch(key, value) ==
    IF PHONE_REGEX(value) /\ key \in {"phone", "contact"} THEN "phone"
    ELSE IF AADHAR_REGEX(value) /\ key \in {"aadhar", "address_proof"} THEN "aadhar"
    ELSE IF PASSPORT_REGEX(value) /\ key \in {"passport"} THEN "passport"
    ELSE IF UPI_REGEX(value) /\ key \in {"upi_id"} THEN "upi"
    ELSE IF key = "name" /\ Len(Split(Strip(value))) > 1 THEN "name"
    ELSE IF EMAIL_REGEX(value) /\ key = "email" THEN "email"
    ELSE IF key = "address" /\ Len(Strip(value)) > 10 THEN "address"
    ELSE IF key \in {"ip_address", "device_id"} THEN "device_context"
    ELSE "none"

\* the value a standalone branch writes into redacted_data[key]
StandaloneRedaction(branch, value) ==
    CASE branch = "phone" -> redact_phone(value)
      [] branch = "aadhar" -> redact_aadhar(value)
      [] branch = "passport" -> redact_passport(value)
      [] branch = "upi" -> REDACTED_UPI

\* variant of Redacts: the upi branch without the domain check
Redacts_without_domain_check(branch, value) ==
    branch \in {"phone", "aadhar", "passport", "upi"}

\* the standalone branch is taken and redacts: the upi branch only when the
\* domain check passes
Redacts(branch, value) ==
    \/ branch \in {"phone", "aadhar", "passport"}
    \/ branch = "upi" /\ UpiDomainIsSimple(value)

\* the branch raises IndexError: value.split('@')[1] when value holds no '@',
\* passport_str[0] when the value is empty
Raises(branch, value) ==
    \/ branch = "upi" /\ FirstIndex(value, "@") = 0
    \/ branch = "passport" /\ Len(value) = 0

\* redacted_data = data.copy() and the three locals
Call(record) ==
    /\ data' = record
    /\ redacted_data' = record
    /\ is_pii_found' = FALSE
    /\ combinatorial_keys' = {}
    /\ pii_fields_to_redact' = {}
    /\ todo' = DOMAIN record
    /\ pc' = IF DOMAIN record = {} THEN "evaluate" ELSE "detect"

\* process_record is called with a record
Start ==
    /\ pc = "idle"
    /\ main_pc = "idle"
    /\ \E record \in Records : Call(record)
    /\ pass' = 1
    /\ UNCHANGED caller_vars

\* Step 1, one iteration of the loop over data.items(); an IndexError ends
\* the call
Detect ==
    /\ pc = "detect"
    /\ \E key \in todo :
         LET value == data[key]
             branch == IF Skipped(value) THEN "none" ELSE Branch(key, value.str)
         IN  IF branch \in {"phone", "aadhar", "passport", "upi"}
                /\ Raises(branch, value.str)
             THEN /\ pc' = "raised"
                  /\ UNCHANGED << todo, combinatorial_keys, is_pii_found,
                                  redacted_data >>
             ELSE /\ todo' = todo \ {key}
                  /\ pc' = IF todo' = {} THEN "evaluate" ELSE "detect"
                  /\ IF branch \in {"phone", "aadhar", "passport", "upi"}
                     THEN /\ combinatorial_keys' = combinatorial_keys
                          /\ IF Redacts(branch, value.str)
                             THEN /\ is_pii_found' = TRUE
                                  /\ redacted_data' =
                                       [redacted_data EXCEPT
                                          ![key] = Str(StandaloneRedaction(
                                                          branch, value.str))]
                             ELSE UNCHANGED << is_pii_found, redacted_data >>
                     ELSE /\ combinatorial_keys' =
                               IF branch = "none" THEN combinatorial_keys
                               ELSE combinatorial_keys \cup {branch}
                          /\ UNCHANGED << is_pii_found, redacted_data >>
    /\ UNCHANGED << data, pii_fields_to_redact, pass, caller_vars >>

\* len(combinatorial_keys) >= 2
EscalationThreshold == 2

\* variant of Escalates: one category is enough
Escalates_on_one(categories) == Cardinality(categories) >= EscalationThreshold - 1

\* the condition of Step 2
Escalates(categories) == Cardinality(categories) >= EscalationThreshold

\* variant of FieldsToRedact: device_context marks ip_address only
FieldsToRedact_ip_only(categories) ==
    (categories \cap {"name", "email", "address"})
        \cup (IF "device_context" \in categories THEN {"ip_address"} ELSE {})

\* the fields Step 2 marks for the categories found
FieldsToRedact(categories) ==
    (categories \cap {"name", "email", "address"})
        \cup (IF "device_context" \in categories
              THEN {"ip_address", "device_id"} ELSE {})

\* variant of Evaluate: the fields are marked outside the if, so also when
\* the rule does not fire
Evaluate_marks_outside_if ==
    /\ pc = "evaluate"
    /\ is_pii_found' = (is_pii_found \/ Escalates(combinatorial_keys))
    /\ pii_fields_to_redact' = FieldsToRedact(combinatorial_keys)
    /\ pc' = "redact"
    /\ UNCHANGED << data, redacted_data, combinatorial_keys, todo, pass,
                    caller_vars >>

\* Step 2: the combinatorial rule
Evaluate ==
    /\ pc = "evaluate"
    /\ IF Escalates(combinatorial_keys)
       THEN /\ is_pii_found' = TRUE
            /\ pii_fields_to_redact' = FieldsToRedact(combinatorial_keys)
       ELSE UNCHANGED << is_pii_found, pii_fields_to_redact >>
    /\ pc' = "redact"
    /\ UNCHANGED << data, redacted_data, combinatorial_keys, todo, pass,
                    caller_vars >>

\* the value Step 3 writes for a marked field
CombinatorialRedaction(key, value) ==
    IF key = "name" THEN redact_name(value)
    ELSE IF key = "email" THEN redact_email(value)
    ELSE IF key = "address" THEN REDACTED_ADDRESS
    ELSE REDACTED_IDENTIFIER

\* variant of Redactable: without the test that the record has the field
Redactable_or_missing(record, key) == key \notin DOMAIN record \/ IsStr(record[key])

\* key in redacted_data and isinstance(redacted_data[key], str)
Redactable(record, key) == key \in DOMAIN record /\ IsStr(record[key])

\* Step 3 and the return; redacted_data[key] = ... adds a field the record lacks
Redact ==
    /\ pc = "redact"
    /\ LET written == { key \in pii_fields_to_redact : Redactable(redacted_data, key) }
       IN  redacted_data' =
             [key \in DOMAIN redacted_data \cup written |->
                IF key \in written
                THEN Str(CombinatorialRedaction(key, redacted_data[key].str))
                ELSE redacted_data[key]]
    /\ pc' = "done"
    /\ UNCHANGED << data, is_pii_found, combinatorial_keys,
                    pii_fields_to_redact, todo, pass, caller_vars >>

\* the returned record is passed to process_record again
Resubmit ==
    /\ pc = "done"
    /\ pass = 1
    /\ main_pc = "idle"
    /\ Call(redacted_data)
    /\ pass' = 2
    /\ UNCHANGED caller_vars

Next == Start \/ Detect \/ Evaluate \/ Redact \/ Resubmit

Spec == Init /\ [][Next]_vars

(* ----------------------------------------------------------------------- *)
(* The matcher table, stated rule by rule                                  *)
(* ----------------------------------------------------------------------- *)

RecognizedFields ==
    {"phone", "contact", "aadhar", "address_proof", "passport", "upi_id",
     "name", "email", "address", "ip_address", "device_id"}

CombinatorialFields == {"name", "email", "address", "ip_address", "device_id"}

DeviceFields == {"ip_address", "device_id"}

\* the value is a string that is not blank
Inspected(value) == IsStr(value) /\ \E i \in 1..Len(value.str) : ~IsSpace(value.str[i])

\* a standalone rule matches the field
StandaloneMatch(key, value) ==
    /\ Inspected(value)
    /\ \/ key \in {"phone", "contact"} /\ PHONE_REGEX(value.str)
       \/ key \in {"aadhar", "address_proof"} /\ AADHAR_REGEX(value.str)
       \/ key = "passport" /\ PASSPORT_REGEX(value.str)
       \/ key = "upi_id" /\ UPI_REGEX(value.str) /\ UpiDomainIsSimple(value.str)

\* the combinatorial categories the field marks
CategoriesOf(key, value) ==
    IF ~Inspected(value) THEN {}
    ELSE    (IF key = "name" /\ Len(Split(value.str)) >= 2 THEN {"name"} ELSE {})
       \cup (IF key = "email" /\ EMAIL_REGEX(value.str) THEN {"email"} ELSE {})
       \cup (IF key = "address" /\ Len(Strip(value.str)) > 10 THEN {"address"} ELSE {})
       \cup (IF key \in DeviceFields THEN {"device_context"} ELSE {})

\* the combinatorial categories detected in the record
Categories(record) ==
    UNION { CategoriesOf(key, record[key]) : key \in DOMAIN record }

HasStandaloneMatch(record) ==
    \E key \in DOMAIN record : StandaloneMatch(key, record[key])

\* the category a combinatorial field belongs to
CategoryOfField(key) == IF key \in DeviceFields THEN "device_context" ELSE key

Done == pc = "done"

(* ----------------------------------------------------------------------- *)
(* Properties                                                              *)
(* ----------------------------------------------------------------------- *)

\* C1: process_record returns is_pii = true exactly when a standalone rule
\* matched a field or at least two distinct combinatorial categories were
\* detected in the record.
C1_IsPiiIffFinding ==
    Done => (is_pii_found <=>
                (HasStandaloneMatch(data) \/ Cardinality(Categories(data)) >= 2))

\* C1 witness: a record flagged by escalation alone
C1_Witness ==
    /\ Done
    /\ is_pii_found
    /\ ~HasStandaloneMatch(data)
    /\ Cardinality(Categories(data)) >= 2

\* the fields of the detected categories carry the category's transform, and
\* the combinatorial fields of the other categories are unchanged; the device
\* fields of DeviceRedacted carry the identifier sentinel
EscalationRedacts(DeviceRedacted) ==
    LET found == Categories(data)
    IN  /\ "name" \in found =>
              redacted_data["name"] = Str(redact_name(data["name"].str))
        /\ "email" \in found =>
              redacted_data["email"] = Str(redact_email(data["email"].str))
        /\ "address" \in found =>
              redacted_data["address"] = Str(REDACTED_ADDRESS)
        /\ "device_context" \in found =>
              \A key \in DeviceRedacted : redacted_data[key] = Str(REDACTED_IDENTIFIER)
        /\ \A key \in CombinatorialFields \cap DOMAIN data :
              CategoryOfField(key) \notin found => redacted_data[key] = data[key]

\* C2 as stated: with two or more categories detected, every field of every
\* detected category is redacted with the category's transform, device_context
\* for whichever of ip_address and device_id exist in the record, and every
\* combinatorial field whose category was not detected is unchanged.
C2_Original ==
    (Done /\ Cardinality(Categories(data)) >= 2) =>
        EscalationRedacts(DeviceFields \cap DOMAIN data)

\* C2 amended: as C2, with device_context redacting whichever of ip_address
\* and device_id exist in the record with a string value; a device field whose
\* value is not a string is unchanged.
C2_EscalationRedactsDetected ==
    (Done /\ Cardinality(Categories(data)) >= 2) =>
        /\ EscalationRedacts({ key \in DeviceFields \cap DOMAIN data : IsStr(data[key]) })
        /\ \A key \in DeviceFields \cap DOMAIN data :
              ~IsStr(data[key]) => redacted_data[key] = data[key]

\* C2 witness: escalation with device_context marked by the only device field
\* of the record, next to a combinatorial field whose category was not detected
C2_Witness ==
    /\ Done
    /\ Cardinality(Categories(data)) >= 2
    /\ "device_context" \in Categories(data)
    /\ Cardinality(DeviceFields \cap DOMAIN data) = 1
    /\ \E key \in CombinatorialFields \cap DOMAIN data :
          CategoryOfField(key) \notin Categories(data)

\* C3: with exactly one combinatorial category detected, none of name, email,
\* address, ip_address, device_id is redacted, whether or not a standalone
\* field was; with no standalone match either, the output equals the input and
\* is_pii is false.
C3_OneCategoryNoEscalation ==
    (Done /\ Cardinality(Categories(data)) = 1) =>
        /\ \A key \in CombinatorialFields \cap DOMAIN data :
              redacted_data[key] = data[key]
        /\ ~HasStandaloneMatch(data) => (redacted_data = data /\ ~is_pii_found)

\* C3 witness: both device fields present as the single category, next to a
\* standalone field that was redacted
C3_Witness ==
    /\ Done
    /\ Categories(data) = {"device_context"}
    /\ \A key \in DeviceFields :
          key \in DOMAIN data /\ Inspected(data[key])
    /\ HasStandaloneMatch(data)
    /\ redacted_data # data

\* C4: the returned record has exactly the key set of the input; a missing
\* ip_address or device_id is not created by device_context escalation.
C4_SameKeySet == DOMAIN redacted_data = DOMAIN data

\* C4 witness: device_context escalated in a record that lacks device_id
C4_Witness ==
    /\ Done
    /\ "device_id" \in pii_fields_to_redact
    /\ "device_id" \notin DOMAIN data
    /\ redacted_data["ip_address"] = Str(REDACTED_IDENTIFIER)

\* C5 as stated: a field whose input value is not a string or is blank has
\* the same value in the output and contributes no standalone finding and no
\* combinatorial category: the iteration that visits it changes neither
\* is_pii_found nor combinatorial_keys.
C5_Original ==
    [][\A key \in DOMAIN data' :
          ~Inspected(data'[key]) =>
             /\ redacted_data'[key] = data'[key]
             /\ (key \in todo /\ key \notin todo') =>
                   /\ is_pii_found' = is_pii_found
                   /\ combinatorial_keys' = combinatorial_keys]_vars

\* C6: a field whose name is outside the recognized set has the same value in
\* the output as in the input, whatever its value looks like, and the
\* iteration that visits it changes neither is_pii_found nor the categories.
C6_UnrecognizedUntouched ==
    [][\A key \in DOMAIN data' \ RecognizedFields :
          /\ redacted_data'[key] = data'[key]
          /\ (key \in todo /\ key \notin todo') =>
                /\ is_pii_found' = is_pii_found
                /\ combinatorial_keys' = combinatorial_keys]_vars

\* C6 witness: an unrecognized field holding a 10-digit token, returned
\* unchanged in a record that is not flagged
C6_Witness ==
    /\ Done
    /\ ~is_pii_found
    /\ \E key \in DOMAIN data \ RecognizedFields :
          /\ IsStr(data[key])
          /\ PHONE_REGEX(data[key].str)
          /\ redacted_data[key] = data[key]

\* the 10-digit token PHONE_REGEX finds in s: its leftmost match
PhoneToken(s) ==
    LET i == CHOOSE i \in 1..(Len(s) - 9) :
                 PhoneMatchAt(s, i) /\ \A j \in 1..(i - 1) : ~PhoneMatchAt(s, j)
    IN  SubSeq(s, i, i + 9)

\* C7 as stated: for a phone or contact value with a 10-digit token, the
\* output keeps the first 2 and last 2 digits of the token around 6 X, also
\* when the value holds other text around the token.
C7_Original ==
    Done =>
        \A key \in {"phone", "contact"} \cap DOMAIN data :
            (Inspected(data[key]) /\ PHONE_REGEX(data[key].str)) =>
                redacted_data[key] =
                    Str(SubSeq(PhoneToken(data[key].str), 1, 2) \o Xs(6)
                            \o SubSeq(PhoneToken(data[key].str), 9, 10))

\* the last 4 digits of the number AADHAR_REGEX finds in s: its leftmost match
AadharLastFour(s) ==
    LET m == CHOOSE m \in (1..(Len(s) - 11)) \X {0, 1} \X {0, 1} :
                 /\ AadharMatchAt(s, m[1], m[2], m[3])
                 /\ \A j \in 1..(m[1] - 1) : \A a \in {0, 1} : \A b \in {0, 1} :
                       ~AadharMatchAt(s, j, a, b)
    IN  SubSeq(s, m[1] + 8 + m[2] + m[3], m[1] + 11 + m[2] + m[3])

\* C8 as stated: for an aadhar or address_proof value that matches the Aadhar
\* rule, the redacted value is 8 X followed by the last 4 digits of the
\* matched number, whatever other text surrounds the token.
C8_Original ==
    Done =>
        \A key \in {"aadhar", "address_proof"} \cap DOMAIN data :
            (Inspected(data[key]) /\ AADHAR_REGEX(data[key].str)) =>
                redacted_data[key] = Str(Xs(8) \o AadharLastFour(data[key].str))

\* C9: process_record applied to the record it returned returns that record
\* unchanged.
C9_Idempotent == (Done /\ pass = 2) => redacted_data = data

\* C9 witness: a second pass over a record redacted by escalation, which
\* escalates again
C9_Witness ==
    /\ Done
    /\ pass = 2
    /\ "address" \in DOMAIN data
    /\ data["address"] = Str(REDACTED_ADDRESS)
    /\ {"name", "address"} \subseteq pii_fields_to_redact

\* the field was redacted by escalation
Escalated(key) ==
    /\ Cardinality(Categories(data)) >= 2
    /\ key \in CombinatorialFields
    /\ CategoryOfField(key) \in Categories(data)
    /\ IsStr(data[key])

C14_NoFlagNoChange == (Done /\ ~is_pii_found) => redacted_data = data

\* C14 witness: an unflagged record in which one combinatorial category was
\* detected and a upi_id matched UPI_REGEX but failed the domain check
C14_Witness ==
    /\ Done
    /\ ~is_pii_found
    /\ Cardinality(Categories(data)) = 1
    /\ "upi_id" \in DOMAIN data
    /\ IsStr(data["upi_id"])
    /\ UPI_REGEX(data["upi_id"].str)

\* C12: process_record raises no error for any well-formed record: every
\* matcher branch and redaction transform it reaches completes, the upi_id
\* domain check and the passport and phone transforms included, so no call
\* ends in an exception.
C12_NoError == pc # "raised"

\* C12 witness: a call that returned after the upi_id domain check and the
\* passport transform both ran
C12_Witness ==
    /\ Done
    /\ {"upi_id", "passport"} \subseteq DOMAIN data
    /\ redacted_data["upi_id"] = Str(REDACTED_UPI)
    /\ data["upi_id"] # Str(REDACTED_UPI)
    /\ redacted_data["passport"] # data["passport"]

(* ----------------------------------------------------------------------- *)
(* redact_name, called directly and through process_record                 *)
(* ----------------------------------------------------------------------- *)

\* the longest name tried
MaxNameLen == 4

NameChars == {"J", "o", " ", "\t"}

Names == UNION { [1..n -> NameChars] : n \in 0..MaxNameLen }

\* the fields that come with the name: none, or two other categories
NameCompanions ==
    { << >>,
      [email |-> Str(<< "j", "o", "e", "@", "e", "x", ".", "c", "o" >>),
       address |-> Str(<< "1", "2", " ", "M", "a", "i", "n", " ", "S", "t", ",",
                          " ", "X" >>)] }

\* redact_name(name), as test_redact_name calls it
CallRedactName ==
    /\ pc = "idle"
    /\ main_pc = "idle"
    /\ \E name \in Names :
         /\ name_arg' = name
         /\ name_result' = redact_name(name)
    /\ pc' = "name_done"
    /\ UNCHANGED << data, redacted_data, is_pii_found, combinatorial_keys,
                    pii_fields_to_redact, todo, pass, rows, row_index,
                    processed_records, output_file, main_pc >>

\* process_record is called with a record that has a name field
StartNamed ==
    /\ pc = "idle"
    /\ main_pc = "idle"
    /\ \E name \in Names : \E others \in NameCompanions :
         Call(("name" :> Str(name)) @@ others)
    /\ pass' = 1
    /\ UNCHANGED caller_vars

NextName == CallRedactName \/ StartNamed \/ Detect \/ Evaluate \/ Redact

SpecName == Init /\ [][NextName]_vars

\* out has the tokens of in, each with its length and first character kept
\* and every other character replaced by X
TokenwiseMasked(in, out) ==
    LET a == Split(in)
        b == Split(out)
    IN  /\ Len(b) = Len(a)
        /\ \A i \in 1..Len(a) :
              /\ Len(b[i]) = Len(a[i])
              /\ b[i][1] = a[i][1]
              /\ \A j \in 2..Len(b[i]) : b[i][j] = "X"

\* the name is one token and nothing else
SingleToken(name) == Len(Split(name)) = 1 /\ Strip(name) = name

MaxRows == 3

\* What the data_json cell of a row holds: the text of a JSON object, text
\* that is not JSON, the text of a JSON value that is not an object, or
\* nothing (a row shorter than the header, which csv.DictReader fills with
\* None).
JsonObject(record) == [kind |-> "object", value |-> record]
Malformed == [kind |-> "malformed"]
JsonNumber == [kind |-> "number", value |-> Num(42)]
MissingCell == [kind |-> "missing"]

Payloads ==
    { JsonObject("phone" :> Str(D10)),
      JsonObject("city" :> Str(<< "M", "u", "m", "b", "a", "i" >>)),
      Malformed, JsonNumber, MissingCell }

\* the rows of an input file, numbered in input order
Batches ==
    UNION { { [i \in 1..n |-> [record_id |-> i, data_json |-> cells[i]]] :
                cells \in [1..n -> Payloads] } : n \in 0..MaxRows }

\* json.loads raises json.JSONDecodeError
DecodeFails(cell) == cell.kind = "malformed"

\* json.loads returns a dict
DecodesToObject(cell) == cell.kind = "object"

\* an exception other than json.JSONDecodeError leaves the loop: json.loads
\* raises TypeError on None, process_record raises AttributeError on a value
\* that is not a dict
RaisesOther(cell) == cell.kind \in {"number", "missing"}

\* json.dumps(redacted_data), as the JSON value the text denotes
Dumps(record) == [json |-> record]

\* the text '{"error": "Invalid JSON format"}', as the JSON value it denotes
ErrorPayload ==
    [json |-> "error" :> Str(<< "I", "n", "v", "a", "l", "i", "d", " ", "J",
                                "S", "O", "N", " ", "f", "o", "r", "m", "a",
                                "t" >>)]

\* main is called on an input file
MainStart ==
    /\ pc = "idle"
    /\ main_pc = "idle"
    /\ rows' \in Batches
    /\ row_index' = 1
    /\ processed_records' = << >>
    /\ main_pc' = "loop"
    /\ UNCHANGED << data, redacted_data, is_pii_found, combinatorial_keys,
                    pii_fields_to_redact, todo, pc, pass, name_arg,
                    name_result, output_file >>

\* data = json.loads(data_json_str); process_record(data) begins
DecodeAndCall ==
    /\ main_pc = "loop"
    /\ row_index <= Len(rows)
    /\ DecodesToObject(rows[row_index].data_json)
    /\ Call(rows[row_index].data_json.value)
    /\ pass' = 1
    /\ main_pc' = "in_call"
    /\ UNCHANGED << name_arg, name_result, rows, row_index, processed_records,
                    output_file >>

\* process_record returned: the row's result is appended
AppendResult ==
    /\ main_pc = "in_call"
    /\ pc = "done"
    /\ processed_records' =
          Append(processed_records,
                 [record_id |-> rows[row_index].record_id,
                  redacted_data_json |-> Dumps(redacted_data),
                  is_pii |-> is_pii_found])
    /\ row_index' = row_index + 1
    /\ pc' = "idle"
    /\ main_pc' = "loop"
    /\ UNCHANGED << data, redacted_data, is_pii_found, combinatorial_keys,
                    pii_fields_to_redact, todo, pass, name_arg, name_result,
                    rows, output_file >>

\* except json.JSONDecodeError: the error row is appended
AppendError ==
    /\ main_pc = "loop"
    /\ row_index <= Len(rows)
    /\ DecodeFails(rows[row_index].data_json)
    /\ processed_records' =
          Append(processed_records,
                 [record_id |-> rows[row_index].record_id,
                  redacted_data_json |-> ErrorPayload,
                  is_pii |-> FALSE])
    /\ row_index' = row_index + 1
    /\ UNCHANGED << data, redacted_data, is_pii_found, combinatorial_keys,
                    pii_fields_to_redact, todo, pc, pass, name_arg,
                    name_result, rows, output_file, main_pc >>

\* an exception that the inner handler does not catch is pending
Uncaught ==
    IF main_pc = "loop"
    THEN row_index <= Len(rows) /\ RaisesOther(rows[row_index].data_json)
    ELSE main_pc = "in_call" /\ pc = "raised"

\* except Exception: main prints the error and returns, the output file is
\* never opened
Abort ==
    /\ Uncaught
    /\ main_pc' = "aborted"
    /\ UNCHANGED << data, redacted_data, is_pii_found, combinatorial_keys,
                    pii_fields_to_redact, todo, pc, pass, name_arg,
                    name_result, rows, row_index, processed_records,
                    output_file >>

\* the reader is exhausted: the output file is written
WriteOutput ==
    /\ main_pc = "loop"
    /\ row_index > Len(rows)
    /\ output_file' = [written |-> TRUE, rows |-> processed_records]
    /\ main_pc' = "finished"
    /\ UNCHANGED << data, redacted_data, is_pii_found, combinatorial_keys,
                    pii_fields_to_redact, todo, pc, pass, name_arg,
                    name_result, rows, row_index, processed_records >>

NextMain ==
    \/ MainStart \/ DecodeAndCall \/ Detect \/ Evaluate \/ Redact
    \/ AppendResult \/ AppendError \/ Abort \/ WriteOutput

SpecMain == Init /\ [][NextMain]_vars

\* main has returned
Returned == main_pc \in {"finished", "aborted"}

\* C11 as stated: a single bad row never aborts the batch. Once main has
\* returned, the output file holds exactly one row per input row, in input
\* order with the record_id of its input row, and a row whose data_json
\* failed to decode has the payload {"error": "Invalid JSON format"} and
\* is_pii false.
C11_Original ==
    Returned =>
        /\ output_file.written
        /\ Len(output_file.rows) = Len(rows)
        /\ \A i \in 1..Len(output_file.rows) :
              /\ output_file.rows[i].record_id = rows[i].record_id
              /\ ~DecodesToObject(rows[i].data_json) =>
                    /\ output_file.rows[i].redacted_data_json = ErrorPayload
                    /\ output_file.rows[i].is_pii = FALSE

====
